---- MODULE Spec2Model ----
(***************************************************************************)
(* ipy-hybrid-commands: a slash command declaration mirrored onto the      *)
(* prefixed (text) command tree.                                           *)
(*                                                                         *)
(*   src/ipy_hybrid/manager.py      HybridManager (tree mirror, lifecycle) *)
(*   src/ipy_hybrid/hybrid_slash.py converters and slash_to_prefixed       *)
(*                                                                         *)
(* Python values are encoded as follows.  An optional value is a sequence  *)
(* of length 0 (None / MISSING / Parameter.empty) or 1 (the value).  A     *)
(* fully-qualified command name ("base group sub", joined with spaces by   *)
(* resolved_name and split on spaces by get_command) is the sequence of    *)
(* its words.  The prefixed command tree (nested name -> command dicts) is *)
(* a function from paths to nodes: the node at path p holds the children   *)
(* whose paths extend p by one name.  Localised names are not declared, so *)
(* every alias list is empty.                                              *)
(***************************************************************************)
EXTENDS Integers, Sequences, FiniteSets, TLC

VARIABLES
    commands,           \* client.prefixed.commands: the text command tree
    ext_command_list,   \* HybridManager.ext_command_list
    registered,         \* history: names each extension registered since its last unload
    lastEvent,          \* history: the event handled last and its outcome
    nEvents,            \* history: the number of events delivered
    schema,             \* a HybridSlashCommand under translation
    translations,       \* the results of slash_to_prefixed(schema) so far
    call,               \* one converter call: converter, context, argument
    result,             \* what the call returned or raised, once made
    invocations         \* the text invocations in flight, by id

mirrorVars == <<commands, ext_command_list, registered, lastEvent, nEvents>>
sigVars == <<schema, translations>>
convVars == <<call, result>>
vars == <<mirrorVars, sigVars, convVars, invocations>>

None == <<>>
Some(v) == <<v>>
IsNone(o) == o = <<>>
Truthy(o) == o # <<>> /\ o[1] # 0

\* Base names, group names and subcommand names; "g" is both a group name and
\* a subcommand name.
BaseNames == {"a", "b"}
GroupNames == {"g"}
SubNames == {"g", "s"}
Exts == {"e1", "e2"}
\* The number of events the host delivers to the manager in one run.
MaxEvents == 4

(***************************************************************************)
(* Results of Python calls: exc = "" for a normal return with value val,   *)
(* otherwise the message/class of the exception raised.                    *)
(***************************************************************************)
Return(v) == [exc |-> "", val |-> v]
Raise(e) == [exc |-> e, val |-> None]

AutocompleteError == "ValueError: Cannot use autocomplete in hybrid commands."
UnknownTypeError == "NotImplementedError: Unknown option type"
DuplicateError == "ValueError: Duplicate command!"

(***************************************************************************)
(* hybrid_slash.py: converter selection and signature synthesis            *)
(***************************************************************************)
KnownTypes == {"STRING", "INTEGER", "NUMBER", "BOOLEAN", "USER", "CHANNEL",
               "ROLE", "MENTIONABLE", "ATTACHMENT"}
\* SUB_COMMAND is a member of OptionType that type_from_option does not handle.
OptionTypes == KnownTypes \cup {"SUB_COMMAND"}

BasicConverter(t) == [conv |-> "BasicConverter", type_to_convert |-> t]
HackyUnionConverter(cs) == [conv |-> "HackyUnionConverter", converters |-> cs]
ChoicesConverter(choices) == [conv |-> "ChoicesConverter", choices |-> choices]
RangeConverter(t, lo, hi) ==
    [conv |-> "RangeConverter", number_type |-> t, min_value |-> lo, max_value |-> hi]
StringLengthConverter(lo, hi) ==
    [conv |-> "StringLengthConverter", min_length |-> lo, max_length |-> hi]
NarrowedChannelConverter(types) ==
    [conv |-> "NarrowedChannelConverter", channel_types |-> types]
ChainConverter(first, second, name) ==
    [conv |-> "ChainConverter", first_converter |-> first,
     second_converter |-> second, name_of_cmd |-> name]
ChainNoArgConverter(first, second, name) ==
    [conv |-> "ChainNoArgConverter", first_converter |-> first,
     second_converter |-> second, name_of_cmd |-> name]

\* isinstance(c, ipy.NoArgumentConverter)
IsNoArgumentConverter(c) == c.conv \in {"AttachmentConverter", "ChainNoArgConverter"}

type_from_option(option_type) ==
    CASE option_type = "STRING" -> Return(BasicConverter("str"))
      [] option_type = "INTEGER" -> Return(BasicConverter("int"))
      [] option_type = "NUMBER" -> Return(BasicConverter("float"))
      [] option_type = "BOOLEAN" -> Return([conv |-> "BoolConverter"])
      [] option_type = "USER" ->
            Return(HackyUnionConverter(<<"MemberConverter", "UserConverter">>))
      [] option_type = "CHANNEL" -> Return([conv |-> "BaseChannelConverter"])
      [] option_type = "ROLE" -> Return([conv |-> "RoleConverter"])
      [] option_type = "MENTIONABLE" ->
            Return(HackyUnionConverter(
                <<"MemberConverter", "UserConverter", "RoleConverter">>))
      [] option_type = "ATTACHMENT" -> Return([conv |-> "AttachmentConverter"])
      [] OTHER -> Raise(UnknownTypeError)

\* Mutant: numeric bounds are looked at before the choice list.
OptionAnno_BoundsFirst(option) ==
    IF ~IsNone(option.min_value) \/ ~IsNone(option.max_value)
    THEN Return(RangeConverter(option.type, option.min_value, option.max_value))
    ELSE IF option.choices # <<>>
    THEN Return(ChoicesConverter(option.choices))
    ELSE IF ~IsNone(option.min_length) \/ ~IsNone(option.max_length)
    THEN Return(StringLengthConverter(option.min_length, option.max_length))
    ELSE IF option.type = "CHANNEL" /\ option.channel_types # <<>>
    THEN Return(NarrowedChannelConverter(option.channel_types))
    ELSE type_from_option(option.type)

\* The constraint-derived converter of one option (option_anno).
OptionAnno(option) ==
    IF option.choices # <<>>
    THEN Return(ChoicesConverter(option.choices))
    ELSE IF ~IsNone(option.min_value) \/ ~IsNone(option.max_value)
    THEN Return(RangeConverter(option.type, option.min_value, option.max_value))
    ELSE IF ~IsNone(option.min_length) \/ ~IsNone(option.max_length)
    THEN Return(StringLengthConverter(option.min_length, option.max_length))
    ELSE IF option.type = "CHANNEL" /\ option.channel_types # <<>>
    THEN Return(NarrowedChannelConverter(option.channel_types))
    ELSE type_from_option(option.type)

\* slash_param.converter of the parameter named like the option, if any.
CustomConverter(cmd, option) ==
    IF option.name \in DOMAIN cmd.parameters
    THEN cmd.parameters[option.name].converter
    ELSE None

\* The slot's annotation: the custom converter alone, the constraint-derived
\* converter alone, or the chain of both.
SlotAnnotation(cmd, option, option_anno) ==
    LET annotation == CustomConverter(cmd, option) IN
    IF IsNone(annotation) THEN option_anno
    ELSE IF IsNoArgumentConverter(option_anno)
    THEN ChainNoArgConverter(option_anno, annotation[1], option.name)
    ELSE ChainConverter(option_anno, annotation[1], option.name)

\* Mutant: an optional parameter always gets the absent marker.
SlotDefault_OptionalAlwaysAbsent(cmd, option) ==
    LET explicit == IF option.name \in DOMAIN cmd.parameters
                    THEN cmd.parameters[option.name].default
                    ELSE None
    IN IF ~option.required THEN Some("None") ELSE explicit

\* The slot's default: None (the empty sequence) is inspect.Parameter.empty,
\* Some("None") is Python's None, Some(d) an explicit default d.
SlotDefault(cmd, option) ==
    LET explicit == IF option.name \in DOMAIN cmd.parameters
                    THEN cmd.parameters[option.name].default
                    ELSE None
    IN IF ~option.required /\ IsNone(explicit) THEN Some("None") ELSE explicit

\* The option names in use that are no Python identifier (str.isidentifier)
\* or are a keyword (keyword.iskeyword).
NotIdentifiers == {"my-opt"}

\* inspect.Parameter(name, kind, default, annotation): the constructor raises
\* ValueError for a name that is no identifier or is a keyword.
inspect_Parameter(name, kind, default, annotation) ==
    IF name \in NotIdentifiers
    THEN Raise("ValueError: '" \o name \o "' is not a valid parameter name")
    ELSE Return([name |-> name, kind |-> kind, default |-> default,
                 annotation |-> annotation])

\* One iteration of the loop over cmd.options.
SlotOf(cmd, option) ==
    IF option.autocomplete THEN Raise(AutocompleteError)
    ELSE LET anno == OptionAnno(option) IN
         IF anno.exc # "" THEN anno
         ELSE inspect_Parameter(option.name, "KEYWORD_ONLY",
                                SlotDefault(cmd, option),
                                SlotAnnotation(cmd, option, anno.val))

\* The slots of the first n options, or the exception raised on the way.
RECURSIVE FakeSigParameters(_, _)
FakeSigParameters(cmd, n) ==
    IF n = 0 THEN Return(<<>>)
    ELSE LET before == FakeSigParameters(cmd, n - 1) IN
         IF before.exc # "" THEN before
         ELSE LET slot == SlotOf(cmd, cmd.options[n]) IN
              IF slot.exc # "" THEN slot
              ELSE Return(Append(before.val, slot.val))

IsSubcommand(cmd) == ~IsNone(cmd.sub_cmd_name)

\* The synthesized prefixed command, or the exception the synthesis raises.
slash_to_prefixed(cmd) ==
    LET params == FakeSigParameters(cmd, Len(cmd.options)) IN
    IF params.exc # "" THEN params
    ELSE Return([name |-> IF IsSubcommand(cmd) THEN cmd.sub_cmd_name[1] ELSE cmd.name,
                 callback |-> cmd.callback[1],
                 inspect_signature |-> params.val])

(***************************************************************************)
(* hybrid_slash.py: the converters.  convert(ctx, argument) returns        *)
(* [exc, val, ctx]: the exception raised ("" for none), the value          *)
(* returned, and the context afterwards.                                   *)
(***************************************************************************)
Returns(v, ctx) == [exc |-> "", val |-> v, ctx |-> ctx]
Raises(e, ctx) == [exc |-> e, val |-> None, ctx |-> ctx]

NoAttachmentError == "BadArgument: No attachment found."
\* The messages of RangeConverter, without the argument and the bound they quote.
LessThanError == "BadArgument: Value is less than min_value."
GreaterThanError == "BadArgument: Value is greater than max_value."
NotAnIntegerError == "BadArgument: Argument is not an integer."
NotANumberError == "BadArgument: Argument is not a number."

\* The decimal literals among the tokens, and the values Python reads them as.
IntLiterals == ("-1" :> -1) @@ ("0" :> 0) @@ ("1" :> 1) @@ ("2" :> 2)
\* float() also reads exponent notation; "1e0" is 1.0.
FloatLiterals == IntLiterals @@ ("1e0" :> 1)

\* int(*args): with one argument the string is parsed (ValueError when it is
\* no integer literal); with two the second is the base, and a base that is
\* not an integer is a TypeError.
PyInt(args) ==
    IF Len(args) = 1
    THEN IF args[1] \in DOMAIN IntLiterals THEN Return(IntLiterals[args[1]])
         ELSE Raise("ValueError: invalid literal for int()")
    ELSE Raise("TypeError: 'str' object cannot be interpreted as an integer")

\* float(*args): takes at most one argument.
PyFloat(args) ==
    IF Len(args) = 1
    THEN IF args[1] \in DOMAIN FloatLiterals THEN Return(FloatLiterals[args[1]])
         ELSE Raise("ValueError: could not convert string to float")
    ELSE Raise("TypeError: float expected at most 1 argument, got 2")

IsValueError(exc) == exc \in {PyInt(<<"">>).exc, PyFloat(<<"">>).exc}

\* self.number_convert: int for INTEGER options, float otherwise.
number_convert(number_type) == IF number_type = "INTEGER" THEN "int" ELSE "float"

\* ipy.utils.maybe_coroutine(func, *args): func(*args).  func is named by its
\* name when it is a function and by its type otherwise; calling an object
\* that is no function is a TypeError.
maybe_coroutine(func, args) ==
    CASE func = "int" -> PyInt(args)
      [] func = "float" -> PyFloat(args)
      [] OTHER -> Raise("TypeError: '" \o func \o "' object is not callable")

BasicConverter_convert(conv, ctx, arg) ==
    LET r == CASE conv.type_to_convert = "int" -> PyInt(<<arg>>)
               [] conv.type_to_convert = "float" -> PyFloat(<<arg>>)
               [] OTHER -> Return(arg)
    IN [exc |-> r.exc, val |-> r.val, ctx |-> ctx]

\* str.lower() on the boolean tokens in use: a token maps to itself unless it
\* has an upper-case letter.
Lowered ==
    ("YES" :> "yes") @@ ("Y" :> "y") @@ ("True" :> "true") @@ ("T" :> "t")
        @@ ("Enable" :> "enable") @@ ("ON" :> "on") @@ ("No" :> "no")
        @@ ("N" :> "n") @@ ("FALSE" :> "false") @@ ("F" :> "f")
        @@ ("Disable" :> "disable") @@ ("Off" :> "off") @@ ("Maybe" :> "maybe")
lower(argument) == IF argument \in DOMAIN Lowered THEN Lowered[argument] ELSE argument

NotABooleanError(argument) ==
    "BadArgument: " \o argument \o " is not a recognised boolean option."

\* Mutant: the argument is compared as written.
BoolConverter_convert_CaseSensitive(ctx, argument) ==
    IF argument \in {"yes", "y", "true", "t", "1", "enable", "on"}
    THEN Returns(TRUE, ctx)
    ELSE IF argument \in {"no", "n", "false", "f", "0", "disable", "off"}
    THEN Returns(FALSE, ctx)
    ELSE Raises(NotABooleanError(argument), ctx)

BoolConverter_convert(ctx, argument) ==
    LET lowered == lower(argument) IN
    IF lowered \in {"yes", "y", "true", "t", "1", "enable", "on"}
    THEN Returns(TRUE, ctx)
    ELSE IF lowered \in {"no", "n", "false", "f", "0", "disable", "off"}
    THEN Returns(FALSE, ctx)
    ELSE Raises(NotABooleanError(argument), ctx)

\* Mutant: the attachment is returned without advancing the cursor.
AttachmentConverter_convert_NoAdvance(ctx, arg) ==
    IF ctx.attachment_index + 1 \in DOMAIN ctx.attachments
    THEN Returns(ctx.attachments[ctx.attachment_index + 1], ctx)
    ELSE Raises(NoAttachmentError, ctx)

\* ctx.message.attachments is indexed from 0: index i is the (i+1)-th element.
AttachmentConverter_convert(ctx, arg) ==
    IF ctx.attachment_index + 1 \in DOMAIN ctx.attachments
    THEN Returns(ctx.attachments[ctx.attachment_index + 1],
                 [ctx EXCEPT !.attachment_index = @ + 1])
    ELSE Raises(NoAttachmentError, ctx)

RangeConverter_convert(conv, ctx, argument) ==
    LET converted == maybe_coroutine(number_convert(conv.number_type), <<ctx, argument>>)
    IN IF IsValueError(converted.exc)
       THEN IF conv.number_type = "NUMBER" THEN Raises(NotANumberError, ctx)
            ELSE Raises(NotAnIntegerError, ctx)
       ELSE IF converted.exc # "" THEN Raises(converted.exc, ctx)
       ELSE IF Truthy(conv.min_value) /\ converted.val < conv.min_value[1]
       THEN Raises(LessThanError, ctx)
       ELSE IF Truthy(conv.max_value) /\ converted.val > conv.max_value[1]
       THEN Raises(GreaterThanError, ctx)
       ELSE Returns(converted.val, ctx)

\* The entity converters of the library (MemberConverter, UserConverter,
\* RoleConverter): the argument resolves to an entity of the converter's kind
\* or the converter raises BadArgument.
ConverterSuffix == "Converter"
EntityKinds == {"Member", "User", "Role"}
EntityConverters == {k \o ConverterSuffix : k \in EntityKinds}
\* name.removesuffix(suffix)
removesuffix(name, suffix) ==
    IF \E k \in EntityKinds : k \o suffix = name
    THEN CHOOSE k \in EntityKinds : k \o suffix = name
    ELSE name
\* ipy.utils.get_object_name(t) for a converter class
get_object_name(t) == t

EntityConverter_convert(class, ctx, arg) ==
    LET kind == removesuffix(class, ConverterSuffix) IN
    IF arg \in DOMAIN ctx.entities /\ kind \in ctx.entities[arg]
    THEN Returns([kind |-> kind, id |-> arg], ctx)
    ELSE Raises("BadArgument: Could not find " \o kind, ctx)

\* sep.join(names)
RECURSIVE Join(_, _)
Join(names, sep) ==
    IF Len(names) = 0 THEN ""
    ELSE IF Len(names) = 1 THEN names[1]
    ELSE names[1] \o sep \o Join(Tail(names), sep)

UnionError(converters, arg) ==
    LET union_names == [i \in 1..Len(converters) |->
                            removesuffix(get_object_name(converters[i]), ConverterSuffix)]
        union_types_str == Join(SubSeq(union_names, 1, Len(union_names) - 1), ", ")
                               \o ", or " \o union_names[Len(union_names)]
    IN "BadArgument: Could not convert \"" \o arg \o "\" into " \o union_types_str \o "."

\* Mutant: the converters are tried from the last to the first.
RECURSIVE UnionTry_LastFirst(_, _, _, _)
UnionTry_LastFirst(converters, ctx, arg, i) ==
    IF i > Len(converters) THEN Raises(UnionError(converters, arg), ctx)
    ELSE LET r == EntityConverter_convert(converters[Len(converters) + 1 - i], ctx, arg) IN
         IF r.exc = "" THEN r ELSE UnionTry_LastFirst(converters, ctx, arg, i + 1)

\* The loop of HackyUnionConverter.convert from the i-th converter on.
RECURSIVE UnionTry(_, _, _, _)
UnionTry(converters, ctx, arg, i) ==
    IF i > Len(converters) THEN Raises(UnionError(converters, arg), ctx)
    ELSE LET r == EntityConverter_convert(converters[i], ctx, arg) IN
         IF r.exc = "" THEN r ELSE UnionTry(converters, ctx, arg, i + 1)

HackyUnionConverter_convert(conv, ctx, arg) == UnionTry(conv.converters, ctx, arg, 1)

\* The custom converters in use: one whose convert is a coroutine function, as
\* ipy.Converter declares it, and one whose convert is a plain function.
AsyncConverters == {"CustomConverter"}
SyncConverters == {"SyncCustomConverter"}

\* ipy.BaseCommand._get_converter_function(anno, name): the convert method of
\* the converter, instantiated when a class is given.
get_converter_function(anno, name) == [convert_of |-> anno]

\* func(ctx, first) for a convert method: a coroutine function returns a
\* coroutine object and its body does not run until the object is awaited; a
\* plain function runs at once.  type names the type of what is returned, and
\* runs lists the inputs the body of the custom converter ran with.
CallConverterFunction(func, ctx, first) ==
    IF func.convert_of \in AsyncConverters
    THEN [type |-> "coroutine", runs |-> <<>>]
    ELSE [type |-> "object", runs |-> <<first>>]

RECURSIVE Convert(_, _, _)

\* ChainConverter.convert and ChainNoArgConverter.convert (the same body): the
\* result carries, as runs, the inputs the custom converter's body ran with.
ChainConverter_convert(conv, ctx, arg) ==
    LET first == Convert(conv.first_converter, ctx, arg) IN
    IF first.exc # ""
    THEN [exc |-> first.exc, val |-> None, ctx |-> first.ctx, runs |-> <<>>]
    ELSE LET called == CallConverterFunction(
                           get_converter_function(conv.second_converter, conv.name_of_cmd),
                           first.ctx, first.val)
             r == maybe_coroutine(called.type, <<>>)
         IN [exc |-> r.exc, val |-> r.val, ctx |-> first.ctx, runs |-> called.runs]

\* converter.convert(ctx, argument), by the class of the converter.
Convert(conv, ctx, argument) ==
    CASE conv.conv = "BasicConverter" -> BasicConverter_convert(conv, ctx, argument)
      [] conv.conv = "BoolConverter" -> BoolConverter_convert(ctx, argument)
      [] conv.conv = "AttachmentConverter" -> AttachmentConverter_convert(ctx, argument)
      [] conv.conv = "RangeConverter" -> RangeConverter_convert(conv, ctx, argument)
      [] conv.conv = "HackyUnionConverter" -> HackyUnionConverter_convert(conv, ctx, argument)
      [] conv.conv \in {"ChainConverter", "ChainNoArgConverter"} ->
            ChainConverter_convert(conv, ctx, argument)

(***************************************************************************)
(* The prefixed command tree (interactions.ext.prefixed_commands), as the  *)
(* manager's calls use it.                                                 *)
(***************************************************************************)
Parent(p) == SubSeq(p, 1, Len(p) - 1)
IsUnder(q, p) == Len(q) >= Len(p) /\ SubSeq(q, 1, Len(p)) = p
\* node.subcommands of the node at path p
Subcommands(tree, p) == {q \in DOMAIN tree : Len(q) = Len(p) + 1 /\ Parent(q) = p}
\* The tree without the node at p and everything below it.
Detach(tree, p) == [q \in {r \in DOMAIN tree : ~IsUnder(r, p)} |-> tree[q]]

\* create_subcmd_func(group): the callback of a placeholder; calling it raises
\* BadArgument.
create_subcmd_func(group) ==
    IF group THEN "_subcommand_base(group=True)" ELSE "_subcommand_base(group=False)"
PlaceholderCallbacks == {create_subcmd_func(TRUE), create_subcmd_func(FALSE)}
\* What calling a placeholder's callback raises.
SubcommandBaseError(callback) ==
    IF callback = create_subcmd_func(TRUE)
    THEN "BadArgument: Cannot run this subcommand group without a valid subcommand."
    ELSE "BadArgument: Cannot run this command without a valid subcommand."

base_subcommand_generator(name, group) ==
    [name |-> name, callback |-> create_subcmd_func(group), inspect_signature |-> <<>>]

\* client.prefixed.add_command(node) / parent.add_command(node): a name already
\* present raises ValueError, otherwise the node is stored under its name.
add_command(tree, parent, node) ==
    LET p == Append(parent, node.name) IN
    IF p \in DOMAIN tree THEN Raise(DuplicateError)
    ELSE Return((p :> node) @@ tree)

\* get_command(name): the node the words of the name lead to, if any.
get_command(tree, name) == IF name \in DOMAIN tree THEN Some(name) ELSE None

\* The loop of remove_command(..., delete_parent_if_empty=True): remove every
\* ancestor left without subcommands, from the parent upwards.
RECURSIVE PruneEmptyParents(_, _)
PruneEmptyParents(tree, p) ==
    IF Len(p) = 0 \/ Subcommands(tree, p) # {} THEN tree
    ELSE PruneEmptyParents(Detach(tree, p), Parent(p))

remove_command(tree, name) ==
    LET found == get_command(tree, name) IN
    IF IsNone(found) THEN tree
    ELSE PruneEmptyParents(Detach(tree, name), Parent(name))

\* cmd.resolved_name: name, then the group name and the subcommand name when set.
resolved_name(cmd) == <<cmd.name>> \o cmd.group_name \o cmd.sub_cmd_name

(***************************************************************************)
(* manager.py: HybridManager                                               *)
(***************************************************************************)
\* Mutant: a base placeholder is generated without looking the name up first.
ResolveBase_AlwaysCreate(tree, cmd) ==
    LET added == add_command(tree, <<>>, base_subcommand_generator(cmd.name, FALSE))
    IN IF added.exc # "" THEN added
       ELSE Return([tree |-> added.val, base |-> <<cmd.name>>, created |-> {"base"}])

\* Look up or create the base node: the path of the base and the tree after.
ResolveBase(tree, cmd) ==
    IF <<cmd.name>> \in DOMAIN tree
    THEN Return([tree |-> tree, base |-> <<cmd.name>>, created |-> {}])
    ELSE LET added == add_command(tree, <<>>, base_subcommand_generator(cmd.name, FALSE))
         IN IF added.exc # "" THEN added
            ELSE Return([tree |-> added.val, base |-> <<cmd.name>>,
                         created |-> {"base"}])

\* Look up or create the group node under base, when the command declares one.
ResolveGroup(tree, cmd, base) ==
    IF IsNone(cmd.group_name)
    THEN Return([tree |-> tree, base |-> base, created |-> {}])
    ELSE LET g == Append(base, cmd.group_name[1]) IN
         IF g \in DOMAIN tree
         THEN Return([tree |-> tree, base |-> g, created |-> {}])
         ELSE LET added == add_command(tree, base,
                               base_subcommand_generator(cmd.group_name[1], TRUE))
              IN IF added.exc # "" THEN added
                 ELSE Return([tree |-> added.val, base |-> g, created |-> {"group"}])

\* Lines 45-70: insert the synthesized command into the tree.
InsertCommand(tree, cmd, prefixed_transform) ==
    IF IsSubcommand(cmd)
    THEN LET b == ResolveBase(tree, cmd) IN
         IF b.exc # "" THEN [exc |-> b.exc, val |-> [tree |-> tree, created |-> {}]]
         ELSE LET g == ResolveGroup(b.val.tree, cmd, b.val.base) IN
              IF g.exc # ""
              THEN [exc |-> g.exc, val |-> [tree |-> b.val.tree, created |-> b.val.created]]
              ELSE LET leaf == add_command(g.val.tree, g.val.base, prefixed_transform)
                       made == b.val.created \cup g.val.created
                   IN IF leaf.exc # ""
                      THEN [exc |-> leaf.exc,
                            val |-> [tree |-> g.val.tree, created |-> made]]
                      ELSE Return([tree |-> leaf.val, created |-> made])
    ELSE LET leaf == add_command(tree, <<>>, prefixed_transform) IN
         IF leaf.exc # "" THEN [exc |-> leaf.exc, val |-> [tree |-> tree, created |-> {}]]
         ELSE Return([tree |-> leaf.val, created |-> {}])

\* Lines 72-75: record the command under its extension.
RecordCommand(index, cmd) ==
    IF IsNone(cmd.extension) THEN index
    ELSE LET e == cmd.extension[1]
             old == IF e \in DOMAIN index THEN index[e] ELSE <<>>
         IN (e :> Append(old, resolved_name(cmd))) @@ index

\* Mutant: the command is recorded before its signature is synthesized.
on_callback_added_RecordFirst(tree, index, cmd) ==
    LET prefixed_transform == slash_to_prefixed(cmd) IN
    IF prefixed_transform.exc # ""
    THEN [exc |-> prefixed_transform.exc, tree |-> tree,
          index |-> RecordCommand(index, cmd), created |-> {}]
    ELSE LET ins == InsertCommand(tree, cmd, prefixed_transform.val) IN
         [exc |-> ins.exc, tree |-> ins.val.tree, index |-> RecordCommand(index, cmd),
          created |-> ins.val.created]

\* The whole handler: the exception it ends with ("" for none) and the state
\* it leaves.  An exception leaves whatever was changed before it was raised.
on_callback_added(tree, index, cmd) ==
    LET prefixed_transform == slash_to_prefixed(cmd) IN
    IF prefixed_transform.exc # ""
    THEN [exc |-> prefixed_transform.exc, tree |-> tree, index |-> index, created |-> {}]
    ELSE LET ins == InsertCommand(tree, cmd, prefixed_transform.val) IN
         IF ins.exc # ""
         THEN [exc |-> ins.exc, tree |-> ins.val.tree, index |-> index,
               created |-> ins.val.created]
         ELSE [exc |-> "", tree |-> ins.val.tree, index |-> RecordCommand(index, cmd),
               created |-> ins.val.created]

RECURSIVE RemoveAll(_, _, _)
RemoveAll(tree, names, i) ==
    IF i > Len(names) THEN tree
    ELSE RemoveAll(remove_command(tree, names[i]), names, i + 1)

\* Mutant: the extension's entry is kept after its commands were removed.
UnloadIndex_KeepEntry(index, extension_name) == index

\* The index after the unload handler ran for extension_name.
UnloadIndex(index, extension_name) ==
    IF extension_name \notin DOMAIN index \/ index[extension_name] = <<>>
    THEN index
    ELSE [e \in DOMAIN index \ {extension_name} |-> index[e]]

\* The tree after the unload handler ran for extension_name.
UnloadTree(tree, index, extension_name) ==
    IF extension_name \notin DOMAIN index \/ index[extension_name] = <<>>
    THEN tree
    ELSE RemoveAll(tree, index[extension_name], 1)

(***************************************************************************)
(* Events delivered to the manager                                         *)
(***************************************************************************)
Option(name, type, required, autocomplete) ==
    [name |-> name, type |-> type, required |-> required,
     autocomplete |-> autocomplete, choices |-> <<>>,
     min_value |-> None, max_value |-> None,
     min_length |-> None, max_length |-> None, channel_types |-> <<>>]

\* The option lists of the commands registered with the manager.
EventOptions ==
    { <<Option("x", "INTEGER", TRUE, FALSE)>>,
      <<Option("x", "INTEGER", TRUE, FALSE), Option("y", "STRING", FALSE, TRUE)>> }

\* The callback of a command is a method of its extension, or a free function.
CallbackOf(extension) ==
    IF IsNone(extension) THEN "callback" ELSE extension[1] \o ".callback"

OptGroupNames == {None} \cup {Some(n) : n \in GroupNames}
OptSubNames == {None} \cup {Some(n) : n \in SubNames}
OptExts == {None} \cup {Some(e) : e \in Exts}

\* The HybridSlashCommand objects (with a callback) the bot declares: the plain
\* commands "a" and "b" and every subcommand of "a", with or without a group
\* (a command that names a group names a subcommand, as those made by
\* hybrid_slash_subcommand and HybridSlashCommand.subcommand do).
HybridCommands ==
    { c \in [name : BaseNames, group_name : OptGroupNames, sub_cmd_name : OptSubNames,
             extension : OptExts, options : EventOptions, parameters : {<<>>},
             callback : {Some(CallbackOf(e)) : e \in OptExts}] :
        /\ c.callback = Some(CallbackOf(c.extension))
        /\ IsNone(c.sub_cmd_name) => IsNone(c.group_name)
        /\ c.name = "b" => IsNone(c.sub_cmd_name) }

NoEvent == [op |-> "none", exc |-> "", created |-> {}, removed |-> 0]

\* The manager right after construction.
MirrorInit ==
    /\ commands = <<>>
    /\ ext_command_list = <<>>
    /\ registered = [e \in Exts |-> <<>>]
    /\ lastEvent = NoEvent
    /\ nEvents = 0

\* No command is being translated.
SigIdle == schema = <<>> /\ translations = <<>>

\* No converter is being called.
ConvIdle == call = <<>> /\ result = <<>>

\* No text invocation is in flight.
NoInvocations == invocations = <<>>

Init == MirrorInit /\ SigIdle /\ ConvIdle /\ NoInvocations

\* A CallbackAdded event whose callback is not a HybridSlashCommand, or is one
\* without a callback function: the handler returns at once.
CallbackAddedIgnored ==
    /\ nEvents < MaxEvents
    /\ nEvents' = nEvents + 1
    /\ lastEvent' = [NoEvent EXCEPT !.op = "ignored"]
    /\ UNCHANGED <<commands, ext_command_list, registered, sigVars, convVars, invocations>>

\* A CallbackAdded event for a HybridSlashCommand with a callback.
CallbackAdded ==
    \E cmd \in HybridCommands :
        LET r == on_callback_added(commands, ext_command_list, cmd) IN
        /\ nEvents < MaxEvents
        /\ nEvents' = nEvents + 1
        /\ commands' = r.tree
        /\ ext_command_list' = r.index
        /\ registered' =
              IF r.exc = "" /\ ~IsNone(cmd.extension)
              THEN [registered EXCEPT ![cmd.extension[1]] = Append(@, resolved_name(cmd))]
              ELSE registered
        /\ lastEvent' = [NoEvent EXCEPT !.op = "callback_added", !.exc = r.exc,
                                        !.created = r.created]
        /\ UNCHANGED <<sigVars, convVars, invocations>>

\* An ExtensionUnload event.
ExtensionUnload ==
    \E e \in Exts :
        /\ nEvents < MaxEvents
        /\ nEvents' = nEvents + 1
        /\ commands' = UnloadTree(commands, ext_command_list, e)
        /\ ext_command_list' = UnloadIndex(ext_command_list, e)
        /\ registered' = [registered EXCEPT ![e] = <<>>]
        /\ lastEvent' = [NoEvent EXCEPT !.op = "extension_unload",
                                        !.removed = IF e \in DOMAIN ext_command_list
                                                    THEN Len(ext_command_list[e])
                                                    ELSE 0]
        /\ UNCHANGED <<sigVars, convVars, invocations>>

Next == CallbackAddedIgnored \/ CallbackAdded \/ ExtensionUnload

Spec == Init /\ [][Next]_vars

(***************************************************************************)
(* Properties of the tree mirror                                           *)
(***************************************************************************)
IsPlaceholder(node) == node.callback \in PlaceholderCallbacks
BasePath(cmd) == <<cmd.name>>
ParentPath(cmd) == <<cmd.name>> \o cmd.group_name
LeafPath(cmd) == IF IsSubcommand(cmd) THEN ParentPath(cmd) \o cmd.sub_cmd_name
                 ELSE <<cmd.name>>
Translates(cmd) == slash_to_prefixed(cmd).exc = ""

\* C1: in every reachable state, registering a subcommand base/group/leaf whose
\* signature synthesizes and whose leaf name is free succeeds; it generates the
\* base placeholder exactly when no node is stored under the base name and the
\* group placeholder exactly when no node is stored under (base, group); every
\* node already in the tree is kept as it was (an existing base or group is
\* reused with its children); and afterwards the tree holds the old nodes plus
\* exactly the base, the group and the leaf, the leaf under the group.
C1_PlaceholdersCreatedOrReused ==
    \A cmd \in HybridCommands :
        (IsSubcommand(cmd) /\ Translates(cmd) /\ LeafPath(cmd) \notin DOMAIN commands) =>
            LET r == on_callback_added(commands, ext_command_list, cmd)
                b == BasePath(cmd)
                g == ParentPath(cmd)
            IN /\ r.exc = ""
               /\ r.created = (IF b \in DOMAIN commands THEN {} ELSE {"base"})
                       \cup (IF g \in DOMAIN commands \/ IsNone(cmd.group_name)
                             THEN {} ELSE {"group"})
               /\ DOMAIN r.tree = DOMAIN commands \cup {b, g, LeafPath(cmd)}
               /\ \A p \in DOMAIN commands : r.tree[p] = commands[p]
               /\ b \notin DOMAIN commands =>
                      r.tree[b] = base_subcommand_generator(cmd.name, FALSE)
               /\ g \notin DOMAIN commands \cup {b} =>
                      r.tree[g] = base_subcommand_generator(cmd.group_name[1], TRUE)
               /\ r.tree[LeafPath(cmd)] = slash_to_prefixed(cmd).val

\* C1 witness: the last registration succeeded without generating a
\* placeholder, under a group placeholder that now routes to two leaves.
C1_Witness ==
    /\ lastEvent.op = "callback_added" /\ lastEvent.exc = "" /\ lastEvent.created = {}
    /\ \E g \in DOMAIN commands :
          /\ Len(g) = 2
          /\ commands[g].callback = create_subcmd_func(TRUE)
          /\ commands[Parent(g)].callback = create_subcmd_func(FALSE)
          /\ Cardinality(Subcommands(commands, g)) = 2

OwnedBy(node, e) == node.callback = CallbackOf(Some(e))

\* C2 (as claimed): in every reachable state, unloading any extension removes
\* every leaf that extension contributed, leaves no placeholder without
\* subcommands behind, and keeps every command of the tree that the extension
\* did not contribute exactly as it was.
C2_UnloadRemovesOnlyOwnLeaves ==
    \A e \in Exts :
        LET t == UnloadTree(commands, ext_command_list, e) IN
        /\ \A p \in DOMAIN t : ~OwnedBy(t[p], e)
        /\ \A p \in DOMAIN t : IsPlaceholder(t[p]) => Subcommands(t, p) # {}
        /\ \A p \in DOMAIN commands :
              (~IsPlaceholder(commands[p]) /\ ~OwnedBy(commands[p], e)) =>
                  (p \in DOMAIN t /\ t[p] = commands[p])

\* C13 (as claimed): in every reachable state every node of the tree that has
\* subcommands is a placeholder, so that every node with a synthesized
\* signature and a real callback is a leaf; a subcommand whose base name is
\* the name of a registered plain command is not stored under that command.
C13_ParentsArePlaceholders ==
    \A p \in DOMAIN commands :
        Subcommands(commands, p) # {} => IsPlaceholder(commands[p])

\* The subcommands of the node at p that are commands of extension e.
LeavesOf(tree, p, e) == {q \in Subcommands(tree, p) : OwnedBy(tree[q], e)}

\* C14 (as claimed): in every reachable state, for a placeholder under which
\* two extensions each have a subcommand, unloading one of them removes that
\* extension's subcommands and keeps the placeholder and every subcommand of
\* the other extension under it as they were.
C14_SharedPlaceholderSurvivesUnload ==
    \A p \in DOMAIN commands : \A e, other \in Exts :
        (/\ e # other
         /\ IsPlaceholder(commands[p])
         /\ LeavesOf(commands, p, e) # {}
         /\ LeavesOf(commands, p, other) # {}) =>
            LET t == UnloadTree(commands, ext_command_list, e) IN
            /\ \A q \in LeavesOf(commands, p, e) : q \notin DOMAIN t
            /\ p \in DOMAIN t /\ t[p] = commands[p]
            /\ \A q \in LeavesOf(commands, p, other) :
                  q \in DOMAIN t /\ t[q] = commands[q]

\* C3: in every reachable state, registering a command one of whose options
\* enables autocomplete ends with the configuration error and leaves the tree
\* and the extension command index exactly as they were.
C3_ConfigErrorChangesNothing ==
    \A cmd \in HybridCommands :
        (\E i \in 1..Len(cmd.options) :
            /\ cmd.options[i].autocomplete
            /\ \A j \in 1..(i - 1) : SlotOf(cmd, cmd.options[j]).exc = "") =>
            LET r == on_callback_added(commands, ext_command_list, cmd) IN
            /\ r.exc = AutocompleteError
            /\ r.tree = commands
            /\ r.index = ext_command_list
            /\ r.created = {}

\* C3 witness: a registration just failed with the configuration error while
\* commands of an extension were already mirrored.
C3_Witness ==
    /\ lastEvent.op = "callback_added"
    /\ lastEvent.exc = AutocompleteError
    /\ DOMAIN ext_command_list # {}
    /\ \E p \in DOMAIN commands : ~IsPlaceholder(commands[p])

\* C10: the extension command index has an entry exactly for the extensions
\* that registered a command since their last unload, the entry lists exactly
\* those registrations in order, and no entry is kept for "no extension".
C10_IndexIsRegistrationsSinceUnload ==
    /\ DOMAIN ext_command_list = {e \in Exts : registered[e] # <<>>}
    /\ \A e \in DOMAIN ext_command_list : ext_command_list[e] = registered[e]

\* C10 witness: an extension with recorded commands was just unloaded while
\* another extension's entry and a command without extension remain.
C10_Witness ==
    /\ lastEvent.op = "extension_unload" /\ lastEvent.removed > 0
    /\ Cardinality(DOMAIN ext_command_list) = 1
    /\ \E p \in DOMAIN commands : commands[p].callback = CallbackOf(None)

(***************************************************************************)
(* Signature synthesis on its own: one command schema, translated up to    *)
(* MaxTranslations times.                                                  *)
(***************************************************************************)
MaxOptions == 3
MaxTranslations == 2

ParamNames == <<"p1", "p2", "p3", "p4", "p5">>
\* Option names: identifiers, and a name with a hyphen, which the platform
\* allows in option names.
OptionNames == {ParamNames[i] : i \in 1..MaxOptions} \cup NotIdentifiers
Choices == {<<>>, <<[name |-> "red", value |-> 1]>>}
ChannelTypes == {<<>>, <<"GUILD_TEXT">>}

\* One option with every combination of kind and constraints.
FullOptions ==
    [name : {ParamNames[1]}, type : OptionTypes, required : BOOLEAN,
     autocomplete : BOOLEAN, choices : Choices,
     min_value : {None, Some(0)}, max_value : {None, Some(1)},
     min_length : {None, Some(0)}, max_length : {None, Some(1)},
     channel_types : ChannelTypes]

\* Required options without constraints, for the schemas with several options.
PlainOptions ==
    {Option(n, t, TRUE, a) : n \in OptionNames, t \in {"INTEGER", "ATTACHMENT"},
                             a \in BOOLEAN}

\* cmd.parameters: what the callback's signature declares for a parameter.
SlashParameters ==
    [converter : {None, Some("CustomConverter")},
     default : {None, Some("None"), Some("d1")}]

SchemaOf(options, parameters) ==
    [name |-> "a", group_name |-> None, sub_cmd_name |-> None, extension |-> None,
     options |-> options, parameters |-> parameters, callback |-> Some(CallbackOf(None))]

DistinctNames(options) ==
    \A i, j \in 1..Len(options) : options[i].name = options[j].name => i = j

Schemas ==
    {SchemaOf(<<o>>, <<>>) : o \in FullOptions}
    \cup {SchemaOf(<<o>>, (o.name :> sp)) : o \in FullOptions, sp \in SlashParameters}
    \cup {SchemaOf(os, <<>>) :
            os \in {s \in UNION {[1..n -> PlainOptions] : n \in 0..MaxOptions} :
                      DistinctNames(s)}}

SigInit ==
    /\ schema \in Schemas
    /\ translations = <<>>
    /\ MirrorInit /\ ConvIdle /\ NoInvocations

\* slash_to_prefixed(schema) is called; the schema object is only read.
Translate ==
    /\ Len(translations) < MaxTranslations
    /\ translations' = Append(translations, slash_to_prefixed(schema))
    /\ UNCHANGED <<schema, mirrorVars, convVars, invocations>>

SigNext == Translate

SpecSig == SigInit /\ [][SigNext]_vars

Supported(option) == ~option.autocomplete /\ option.type \in KnownTypes
HasCustom(cmd, option) ==
    option.name \in DOMAIN cmd.parameters /\ ~IsNone(cmd.parameters[option.name].converter)
HasExplicitDefault(cmd, option) ==
    option.name \in DOMAIN cmd.parameters /\ ~IsNone(cmd.parameters[option.name].default)
\* The first stage of a slot's annotation: the constraint-derived converter.
FirstStage(annotation) ==
    IF annotation.conv \in {"ChainConverter", "ChainNoArgConverter"}
    THEN annotation.first_converter
    ELSE annotation

\* C6: every translation of a schema whose N options are all supported (no
\* autocomplete, a known kind) succeeds with exactly N slots, the k-th slot
\* named after the k-th option; and all translations of the same schema are
\* equal.
C6_SlotsInDeclarationOrder ==
    /\ \A i \in 1..Len(translations) :
          (\A k \in 1..Len(schema.options) : Supported(schema.options[k])) =>
              /\ translations[i].exc = ""
              /\ Len(translations[i].val.inspect_signature) = Len(schema.options)
              /\ \A k \in 1..Len(schema.options) :
                    translations[i].val.inspect_signature[k].name = schema.options[k].name
    /\ \A i, j \in 1..Len(translations) : translations[i] = translations[j]

\* C8: in every successful translation the constraint-derived converter of a
\* slot is the choice converter when the choice list is non-empty; else the
\* range converter when a numeric bound is set; else the string-length
\* converter when a length bound is set; else the narrowed channel converter
\* for a channel option with channel types; else the default of the kind.
C8_ConverterPriority ==
    \A i \in 1..Len(translations) :
        translations[i].exc = "" =>
            \A k \in 1..Len(schema.options) :
                LET o == schema.options[k]
                    c == FirstStage(translations[i].val.inspect_signature[k].annotation)
                IN IF o.choices # <<>>
                   THEN c = ChoicesConverter(o.choices)
                   ELSE IF o.min_value # None \/ o.max_value # None
                   THEN c = RangeConverter(o.type, o.min_value, o.max_value)
                   ELSE IF o.min_length # None \/ o.max_length # None
                   THEN c = StringLengthConverter(o.min_length, o.max_length)
                   ELSE IF o.type = "CHANNEL" /\ o.channel_types # <<>>
                   THEN c = NarrowedChannelConverter(o.channel_types)
                   ELSE c = type_from_option(o.type).val

\* C8 witness: a translated channel option carries a choice list, numeric
\* bounds, length bounds and channel types at once, and got the choice converter.
C8_Witness ==
    /\ Len(translations) >= 1 /\ translations[1].exc = ""
    /\ Len(schema.options) = 1
    /\ schema.options[1].choices # <<>>
    /\ schema.options[1].min_value # None /\ schema.options[1].max_value # None
    /\ schema.options[1].min_length # None /\ schema.options[1].max_length # None
    /\ schema.options[1].type = "CHANNEL" /\ schema.options[1].channel_types # <<>>
    /\ translations[1].val.inspect_signature[1].annotation.conv = "ChoicesConverter"

\* C9: in every successful translation a slot's default is the explicit default
\* when the callback declares one; otherwise the absent marker (Python's None)
\* when the option is not required; otherwise no default (Parameter.empty).
C9_SlotDefaults ==
    \A i \in 1..Len(translations) :
        translations[i].exc = "" =>
            \A k \in 1..Len(schema.options) :
                LET o == schema.options[k]
                    d == translations[i].val.inspect_signature[k].default
                IN IF HasExplicitDefault(schema, o)
                   THEN d = schema.parameters[o.name].default
                   ELSE IF ~o.required THEN d = Some("None")
                   ELSE d = None

\* C9 witness: an optional parameter with the explicit default "d1" was
\* translated and kept it.
C9_Witness ==
    /\ Len(translations) >= 1 /\ translations[1].exc = ""
    /\ Len(schema.options) = 1
    /\ ~schema.options[1].required
    /\ HasExplicitDefault(schema, schema.options[1])
    /\ translations[1].val.inspect_signature[1].default = Some("d1")

(***************************************************************************)
(* One converter call on its own.                                          *)
(***************************************************************************)
Tokens == DOMAIN FloatLiterals \cup {"abc"}
Mentions == {"@alice", "@bob", "@mods", "junk"}
\* What each mention resolves to in the guild of the context.
Guild ==
    ("@alice" :> {"Member", "User"}) @@ ("@bob" :> {"User"}) @@ ("@mods" :> {"Role"})
        @@ ("junk" :> {})

\* The attachments of a message carrying k of them.
Attachments(k) == [i \in 1..k |-> ParamNames[i] \o ".png"]

\* HybridContext.from_prefixed_context: the unified context of a text
\* invocation, its attachment cursor at zero.
from_prefixed_context(attachments) ==
    [attachments |-> attachments, attachment_index |-> 0, entities |-> Guild]

RangeBounds == {None} \cup {Some(v) : v \in -1..2}
RangeConverters ==
    {RangeConverter(t, lo, hi) : t \in {"INTEGER", "NUMBER"}, lo \in RangeBounds,
                                 hi \in RangeBounds}
\* Two or three different entity converters in any order.
UnionConverters ==
    {HackyUnionConverter(cs) :
        cs \in {s \in [1..2 -> EntityConverters] \cup [1..3 -> EntityConverters] :
                  \A i, j \in 1..Len(s) : s[i] = s[j] => i = j}}

\* Boolean tokens: the accepted words in lower case, in other cases, and words
\* that are not accepted.
BoolTokens ==
    {"yes", "y", "true", "t", "1", "enable", "on",
     "no", "n", "false", "f", "0", "disable", "off"}
        \cup DOMAIN Lowered \cup {"maybe", "2", "ye", "onn"}

\* The chains slash_to_prefixed builds for an option with a custom converter:
\* over the default converter of a kind or over a range converter.
ChainConverters ==
    {SlotAnnotation(SchemaOf(<<o>>, (o.name :> [converter |-> Some(c), default |-> None])),
                    o, OptionAnno(o).val) :
        o \in {Option(ParamNames[1], t, TRUE, FALSE) :
                  t \in {"STRING", "INTEGER", "BOOLEAN", "ATTACHMENT"}},
        c \in AsyncConverters \cup SyncConverters}

ConverterCalls ==
    {[converter |-> c, ctx |-> from_prefixed_context(Attachments(k)), argument |-> a] :
        c \in ChainConverters, k \in 0..1, a \in {"1", "abc", "yes"}}
    \cup {[converter |-> c, ctx |-> from_prefixed_context(<<>>), argument |-> a] :
        c \in RangeConverters, a \in Tokens}
    \cup {[converter |-> type_from_option("BOOLEAN").val,
           ctx |-> from_prefixed_context(<<>>), argument |-> a] : a \in BoolTokens}
    \cup {[converter |-> c, ctx |-> from_prefixed_context(<<>>), argument |-> a] :
            c \in UnionConverters, a \in Mentions}

ConvInit ==
    /\ call \in ConverterCalls
    /\ result = <<>>
    /\ MirrorInit /\ SigIdle /\ NoInvocations

\* The converter is called.
ConvertCall ==
    /\ result = <<>>
    /\ result' = <<Convert(call.converter, call.ctx, call.argument)>>
    /\ UNCHANGED <<call, mirrorVars, sigVars, invocations>>

ConvNext == ConvertCall

SpecConv == ConvInit /\ [][ConvNext]_vars

\* The number a token stands for, for a converter of the given number type.
ParsedNumber(number_type, token) ==
    IF number_type = "INTEGER" THEN PyInt(<<token>>) ELSE PyFloat(<<token>>)

\* C4 (as claimed): a range converter called with a token that parses to the
\* number v succeeds, returning v, exactly when v is not below a set minimum
\* and not above a set maximum, whatever the bounds are (0 included).
C4_RangeInclusive ==
    (result # <<>> /\ call.converter.conv = "RangeConverter"
        /\ ParsedNumber(call.converter.number_type, call.argument).exc = "") =>
        LET v == ParsedNumber(call.converter.number_type, call.argument).val
            lo == call.converter.min_value
            hi == call.converter.max_value
        IN (result[1].exc = "" /\ result[1].val = v)
               <=> ((lo = None \/ lo[1] <= v) /\ (hi = None \/ v <= hi[1]))

\* The result of the first converter of the list, in order, that accepts the
\* argument; none when no converter does.
FirstSuccess(converters, ctx, arg) ==
    LET ok == {i \in 1..Len(converters) :
                  EntityConverter_convert(converters[i], ctx, arg).exc = ""}
    IN IF ok = {} THEN None
       ELSE Some(EntityConverter_convert(
                    converters[CHOOSE i \in ok : \A j \in ok : i <= j], ctx, arg).val)

\* "A, or B" for two kinds and "A, B, or C" for three.
JoinedKinds(kinds) ==
    IF Len(kinds) = 2 THEN kinds[1] \o ", or " \o kinds[2]
    ELSE kinds[1] \o ", " \o kinds[2] \o ", or " \o kinds[3]

\* C7: a union converter returns the result of the first converter, in
\* declared order, that accepts the argument; when none does it raises one
\* BadArgument whose message names the kind of every converter, in order,
\* joined as "A, B, or C".
C7_UnionFirstSuccess ==
    (result # <<>> /\ call.converter.conv = "HackyUnionConverter") =>
        LET cs == call.converter.converters
            first == FirstSuccess(cs, call.ctx, call.argument)
            kinds == [i \in 1..Len(cs) |-> removesuffix(cs[i], ConverterSuffix)]
        IN IF first # None
           THEN result[1].exc = "" /\ result[1].val = first[1]
           ELSE result[1].exc = "BadArgument: Could not convert \"" \o call.argument
                                    \o "\" into " \o JoinedKinds(kinds) \o "."

\* C7 witness: the union [Member, User] was given a mention that only the
\* user converter accepts and returned the user.
C7_Witness ==
    /\ result # <<>>
    /\ call.converter = HackyUnionConverter(<<"MemberConverter", "UserConverter">>)
    /\ call.argument = "@bob"
    /\ result[1].exc = ""
    /\ result[1].val = [kind |-> "User", id |-> "@bob"]

\* C11: the boolean converter returns TRUE for every token whose lower-cased
\* form is one of yes, y, true, t, 1, enable, on; FALSE for every token whose
\* lower-cased form is one of no, n, false, f, 0, disable, off; and raises
\* BadArgument for every other token.
C11_BoolConverter ==
    (result # <<>> /\ call.converter.conv = "BoolConverter") =>
        LET low == lower(call.argument) IN
        IF low \in {"yes", "y", "true", "t", "1", "enable", "on"}
        THEN result[1].exc = "" /\ result[1].val = TRUE
        ELSE IF low \in {"no", "n", "false", "f", "0", "disable", "off"}
        THEN result[1].exc = "" /\ result[1].val = FALSE
        ELSE result[1].exc = NotABooleanError(call.argument)

\* C11 witness: the token "YES", accepted only through its lower-cased form,
\* was converted to TRUE.
C11_Witness ==
    /\ result # <<>>
    /\ call.converter.conv = "BoolConverter"
    /\ call.argument = "YES"
    /\ result[1].exc = "" /\ result[1].val = TRUE

\* C12 (as claimed): when a chain converter is called and its first stage
\* fails, the custom converter is not run and the failure of the first stage
\* is raised; when the first stage succeeds, the custom converter runs once,
\* with the output of the first stage as its input.
C12_ChainFeedsCustomConverter ==
    (result # <<>> /\ call.converter.conv \in {"ChainConverter", "ChainNoArgConverter"}) =>
        LET first == Convert(call.converter.first_converter, call.ctx, call.argument) IN
        IF first.exc # ""
        THEN result[1].runs = <<>> /\ result[1].exc = first.exc
        ELSE result[1].runs = <<first.val>>

(***************************************************************************)
(* Text invocations of a mirrored command.  The host finds the command,    *)
(* _HybridToPrefixedCommand.__call__ builds the unified context, and the   *)
(* slots of the command's signature are converted one after the other, in  *)
(* declaration order; a converter that raises ends the invocation.         *)
(***************************************************************************)
MaxAttachments == 2
InvocationIds == {"i1", "i2"}

\* The command the invocations are about: subcommand "a g s" of extension e1,
\* its options attachments and strings in any arrangement.
InvokedCommands ==
    {[name |-> "a", group_name |-> Some("g"), sub_cmd_name |-> Some("s"),
      extension |-> Some("e1"), parameters |-> <<>>,
      callback |-> Some(CallbackOf(Some("e1"))),
      options |-> [i \in 1..n |-> Option(ParamNames[i], ts[i], TRUE, FALSE)]] :
        n \in 0..MaxOptions, ts \in [1..MaxOptions -> {"ATTACHMENT", "STRING"}]}

\* The manager after the command was registered with it.
InvokeInit ==
    /\ \E cmd \in InvokedCommands :
          LET r == on_callback_added(<<>>, <<>>, cmd) IN
          /\ commands = r.tree
          /\ ext_command_list = r.index
          /\ registered = [e \in Exts |-> IF e = "e1" THEN <<resolved_name(cmd)>> ELSE <<>>]
          /\ lastEvent = [NoEvent EXCEPT !.op = "callback_added", !.created = r.created]
          /\ nEvents = 1
    /\ invocations = <<>>
    /\ SigIdle /\ ConvIdle

\* A message invoking the command at some path arrives with k attachments.
StartInvocation(id) ==
    /\ id \notin DOMAIN invocations
    /\ \E path \in DOMAIN commands, k \in 0..MaxAttachments :
          invocations' = (id :> [status |-> "running", command |-> path,
                                 ctx |-> from_prefixed_context(Attachments(k)),
                                 pos |-> 1, exc |-> "", log |-> <<>>]) @@ invocations
    /\ UNCHANGED <<mirrorVars, sigVars, convVars>>

\* Mutant: the context the converter leaves behind, and a failure, are shared
\* by every invocation in flight.
ConvertNext_SharedContext(id) ==
    /\ id \in DOMAIN invocations
    /\ invocations[id].status = "running"
    /\ invocations[id].command \in DOMAIN commands
    /\ LET inv == invocations[id]
           sig == commands[inv.command].inspect_signature
       IN /\ inv.pos <= Len(sig)
          /\ LET r == Convert(sig[inv.pos].annotation, inv.ctx, "hello")
                 entry == [conv |-> sig[inv.pos].annotation.conv,
                           before |-> inv.ctx.attachment_index,
                           after |-> r.ctx.attachment_index,
                           exc |-> r.exc, val |-> <<r.val>>]
             IN invocations' =
                   [o \in DOMAIN invocations |->
                       IF o = id
                       THEN [inv EXCEPT !.ctx = r.ctx,
                                        !.log = Append(@, entry),
                                        !.exc = r.exc,
                                        !.pos = IF r.exc = "" THEN @ + 1 ELSE @,
                                        !.status = IF r.exc = "" THEN @ ELSE "failed"]
                       ELSE [invocations[o] EXCEPT
                                !.ctx.attachment_index = r.ctx.attachment_index,
                                !.status = IF r.exc = "" THEN @ ELSE "failed"]]
    /\ UNCHANGED <<mirrorVars, sigVars, convVars>>

\* The next slot of the invoked command's signature is converted: a slot with
\* a no-argument converter from the context alone, any other from a token.
ConvertNext(id) ==
    /\ id \in DOMAIN invocations
    /\ invocations[id].status = "running"
    /\ invocations[id].command \in DOMAIN commands
    /\ LET inv == invocations[id]
           sig == commands[inv.command].inspect_signature
       IN /\ inv.pos <= Len(sig)
          /\ \E token \in {"hello"} :
                LET r == Convert(sig[inv.pos].annotation, inv.ctx, token)
                    entry == [conv |-> sig[inv.pos].annotation.conv,
                              before |-> inv.ctx.attachment_index,
                              after |-> r.ctx.attachment_index,
                              exc |-> r.exc, val |-> <<r.val>>]
                IN invocations' =
                      [invocations EXCEPT ![id] =
                          [inv EXCEPT !.ctx = r.ctx,
                                      !.log = Append(@, entry),
                                      !.exc = r.exc,
                                      !.pos = IF r.exc = "" THEN @ + 1 ELSE @,
                                      !.status = IF r.exc = "" THEN @ ELSE "failed"]]
    /\ UNCHANGED <<mirrorVars, sigVars, convVars>>

\* Every slot is converted: the callback runs.  A placeholder's callback raises
\* BadArgument.
RunCallback(id) ==
    /\ id \in DOMAIN invocations
    /\ invocations[id].status = "running"
    /\ invocations[id].command \in DOMAIN commands
    /\ LET inv == invocations[id]
           node == commands[inv.command]
       IN /\ inv.pos > Len(node.inspect_signature)
          /\ invocations' =
                [invocations EXCEPT ![id] =
                    IF node.callback \in PlaceholderCallbacks
                    THEN [inv EXCEPT !.status = "failed",
                                     !.exc = SubcommandBaseError(node.callback)]
                    ELSE [inv EXCEPT !.status = "done"]]
    /\ UNCHANGED <<mirrorVars, sigVars, convVars>>

InvokeNext ==
    \E id \in InvocationIds : StartInvocation(id) \/ ConvertNext(id) \/ RunCallback(id)

SpecInvoke == InvokeInit /\ [][InvokeNext]_vars

\* The number of attachment conversions among the first n entries of a log.
RECURSIVE AttachmentSteps(_, _)
AttachmentSteps(log, n) ==
    IF n = 0 THEN 0
    ELSE AttachmentSteps(log, n - 1)
            + (IF log[n].conv = "AttachmentConverter" THEN 1 ELSE 0)

C15_InvocationsIsolated ==
    [][/\ \A id \in DOMAIN invocations :
             (invocations[id].status = "running" /\ invocations'[id].status = "failed") =>
                 /\ commands' = commands
                 /\ ext_command_list' = ext_command_list
                 /\ \A o \in DOMAIN invocations \ {id} : invocations'[o] = invocations[o]
       /\ \A id \in DOMAIN invocations' \ DOMAIN invocations :
             /\ invocations'[id].ctx.attachment_index = 0
             /\ \A o \in DOMAIN invocations : invocations'[o] = invocations[o]]_vars

\* C15 witness: one invocation failed for want of an attachment while another,
\* started with attachments of its own, has converted one and is still running.
C15_Witness ==
    \E id, o \in DOMAIN invocations :
        /\ id # o
        /\ invocations[id].status = "failed"
        /\ invocations[id].exc = NoAttachmentError
        /\ invocations[o].status = "running"
        /\ invocations[o].ctx.attachment_index = 1
        /\ invocations[o].ctx.attachment_index < Len(invocations[o].ctx.attachments)

====
